---- MODULE Spec2Model ----
(***************************************************************************)
(* Model of riemann-rs' binary codec: the compact-integer (VarInt) codec   *)
(* and the `Ser` trait of core/src/ser.rs with its provided impls for u8,  *)
(* Hash256Digest and Vec<I>, and the hash writers of src/hashes/hash256.rs *)
(* and core/src/hashes/sha3_256.rs.                                        *)
(*                                                                         *)
(* A u64 is kept as its 8 little-endian bytes (what to_le_bytes /          *)
(* from_le_bytes exchange), because the values of interest exceed the      *)
(* integer range of the model checker.                                     *)
(***************************************************************************)
EXTENDS Integers, Sequences, FiniteSets, TLC

VARIABLES
    value,    \* the value handed to the last write / serialize call
    writer,   \* the `Write` sink: [kind, cap, buf]
    reader,   \* the `Read` source: [data, pos, chunk]
    text,     \* the String produced by serialize_hex / serialize_base64
    ret,      \* the last call and its Result
    hw,       \* the hash writer: [kind, internal, live]
    chunks    \* the buffers passed to the hash writer's write, in order

vars == <<value, writer, reader, text, ret, hw, chunks>>

----------------------------------------------------------------------------
(* Bounds *)

MaxChunk == 3      \* largest per-call delivery of a short-reading source
MaxCap == 34       \* largest capacity of a bounded or failing sink
MaxIntCap == 10    \* the same, for the sinks a compact integer is written to
MaxVecLen == 3     \* longest Vec<u8>
MaxDigests == 2    \* longest Vec<Hash256Digest>
MaxNest == 2       \* longest Vec<Vec<u8>> and longest Vec<u8> inside it
MaxTextLen == 4    \* longest String that did not come from serialize_*
MaxWrites == 3     \* most write calls on one hash writer

----------------------------------------------------------------------------
(* Helpers *)

Min(a, b) == IF a < b THEN a ELSE b

Take(s, n) == SubSeq(s, 1, Min(n, Len(s)))

Drop(s, n) == SubSeq(s, Min(n, Len(s)) + 1, Len(s))

Zeros(n) == [i \in 1..n |-> 0]

Ok(v) == [status |-> "Ok", val |-> v, err |-> "none"]

Err(e) == [status |-> "Err", val |-> <<>>, err |-> e]

Panic == [status |-> "Panic", val |-> <<>>, err |-> "unwrap on Err"]

IsOk(res, v) == res.status = "Ok" /\ res.val = v

IsErr(res, e) == res.status = "Err" /\ res.err = e

----------------------------------------------------------------------------
(* std::io::Read as the codec uses it *)

\* chunk = 0 is a source that delivers all it can on every read (a slice,
\* a Cursor); chunk = k > 0 is a source that delivers at most k bytes a read.
NewReader(data, chunk) == [data |-> data, pos |-> 0, chunk |-> chunk]

Remaining(r) == Drop(r.data, r.pos)

\* One call of Read::read with a buffer of n bytes: the bytes delivered and
\* the source afterwards. A source may deliver fewer bytes than asked for.
Read(r, n) ==
    LET avail == Len(r.data) - r.pos
        want == Min(n, avail)
        got == IF r.chunk = 0 THEN want ELSE Min(want, r.chunk)
    IN  [bytes |-> SubSeq(r.data, r.pos + 1, r.pos + got),
         reader |-> [r EXCEPT !.pos = r.pos + got]]

\* Read::read_exact: keeps calling read until n bytes are in, fails with
\* UnexpectedEof when a read delivers nothing.
RECURSIVE ReadExactLoop(_, _, _)
ReadExactLoop(r, n, acc) ==
    IF n = 0 THEN [res |-> Ok(acc), reader |-> r]
    ELSE LET rd == Read(r, n)
         IN  IF Len(rd.bytes) = 0
             THEN [res |-> Err("IOError"), reader |-> rd.reader]
             ELSE ReadExactLoop(rd.reader, n - Len(rd.bytes), acc \o rd.bytes)

ReadExact(r, n) == ReadExactLoop(r, n, <<>>)

----------------------------------------------------------------------------
(* std::io::Write as the codec uses it *)

NewVec == [kind |-> "vec", cap |-> 0, buf |-> <<>>]

NewSink(kind, cap) == [kind |-> kind, cap |-> cap, buf |-> <<>>]

\* One call of Write::write. A Vec takes everything; a bounded slice takes
\* what still fits and reports that count (possibly 0) as Ok; a failing sink
\* returns an error once its capacity would be exceeded.
WriteBytes(w, bytes) ==
    IF w.kind = "vec"
    THEN [res |-> Ok(Len(bytes)), writer |-> [w EXCEPT !.buf = w.buf \o bytes]]
    ELSE IF w.kind = "slice"
    THEN LET n == Min(Len(bytes), w.cap - Len(w.buf))
         IN  [res |-> Ok(n), writer |-> [w EXCEPT !.buf = w.buf \o Take(bytes, n)]]
    ELSE IF Len(w.buf) + Len(bytes) > w.cap
         THEN [res |-> Err("IOError"), writer |-> w]
         ELSE [res |-> Ok(Len(bytes)), writer |-> [w EXCEPT !.buf = w.buf \o bytes]]

----------------------------------------------------------------------------
(* u64 as 8 little-endian bytes *)

\* a <= b for two u64
U64Leq(a, b) ==
    \/ a = b
    \/ \E i \in 1..8 : /\ a[i] < b[i]
                       /\ \A j \in (i+1)..8 : a[j] = b[j]

\* u64::from_le_bytes of a zero-initialised 8-byte buffer holding `bytes`
FromLeBytes(bytes) == bytes \o Zeros(8 - Len(bytes))

xFC == <<252, 0, 0, 0, 0, 0, 0, 0>>
xFFFF == <<255, 255, 0, 0, 0, 0, 0, 0>>
xFFFFFFFF == <<255, 255, 255, 255, 0, 0, 0, 0>>

----------------------------------------------------------------------------
(* The compact-integer codec *)

\* prefix_byte_len with the first boundary one too high
prefix_byte_len_fd_short(number) ==
    IF U64Leq(number, <<253, 0, 0, 0, 0, 0, 0, 0>>) THEN 1
    ELSE IF U64Leq(number, xFFFF) THEN 3
    ELSE IF U64Leq(number, xFFFFFFFF) THEN 5
    ELSE 9

prefix_byte_len(number) ==
    IF U64Leq(number, xFC) THEN 1
    ELSE IF U64Leq(number, xFFFF) THEN 3
    ELSE IF U64Leq(number, xFFFFFFFF) THEN 5
    ELSE 9

None == [some |-> FALSE, v |-> 0]

Some(x) == [some |-> TRUE, v |-> x]

first_byte_from_len(number) ==
    IF number = 3 THEN Some(253)
    ELSE IF number = 5 THEN Some(254)
    ELSE IF number = 9 THEN Some(255)
    ELSE None

prefix_len_from_first_byte(number) ==
    IF number <= 252 THEN 1
    ELSE IF number = 253 THEN 3
    ELSE IF number = 254 THEN 5
    ELSE 9

\* the minimality check with the comparison turned round
minimal_length_check_reversed(number, prefix_len) ==
    LET minimal_length == prefix_byte_len(number)
    IN  IF minimal_length > prefix_len
        THEN Err("NonMinimalVarInt")
        ELSE Ok(number)

\* the minimality check that ends read_compact_int
minimal_length_check(number, prefix_len) ==
    LET minimal_length == prefix_byte_len(number)
    IN  IF minimal_length < prefix_len
        THEN Err("NonMinimalVarInt")
        ELSE Ok(number)

\* the body read of read_compact_int: ONE read through reader.take(len - 1)
\* into a zeroed 8-byte buffer
read_body(r, prefix_len) ==
    LET rd == Read(r, prefix_len - 1)
    IN  [number |-> FromLeBytes(rd.bytes), reader |-> rd.reader]

read_compact_int(r) ==
    LET p == ReadExact(r, 1)
    IN  IF p.res.status = "Err" THEN [res |-> p.res, reader |-> p.reader]
        ELSE LET prefix == p.res.val
                 prefix_len == prefix_len_from_first_byte(prefix[1])
             IN  IF prefix_len > 1
                 THEN LET b == read_body(p.reader, prefix_len)
                      IN  [res |-> minimal_length_check(b.number, prefix_len),
                           reader |-> b.reader]
                 ELSE [res |-> minimal_length_check(FromLeBytes(prefix), prefix_len),
                       reader |-> p.reader]

\* write_comapct_int with a body one byte too long
write_comapct_int_long_body(w, number) ==
    LET prefix_len == prefix_byte_len(number)
        first == first_byte_from_len(prefix_len)
    IN  IF ~first.some
        THEN WriteBytes(w, <<number[1]>>)
        ELSE LET w1 == WriteBytes(w, <<first.v>>)
             IN  IF w1.res.status = "Err" THEN w1
                 ELSE LET w2 == WriteBytes(w1.writer, SubSeq(number, 1, Min(prefix_len, 8)))
                      IN  IF w2.res.status = "Err" THEN w2
                          ELSE [res |-> Ok(w1.res.val + w2.res.val),
                                writer |-> w2.writer]

write_comapct_int(w, number) ==
    LET prefix_len == prefix_byte_len(number)
        first == first_byte_from_len(prefix_len)
    IN  IF ~first.some
        THEN WriteBytes(w, <<number[1]>>)
        ELSE LET w1 == WriteBytes(w, <<first.v>>)
             IN  IF w1.res.status = "Err" THEN w1
                 ELSE LET w2 == WriteBytes(w1.writer, SubSeq(number, 1, prefix_len - 1))
                      IN  IF w2.res.status = "Err" THEN w2
                          ELSE [res |-> Ok(w1.res.val + w2.res.val),
                                writer |-> w2.writer]

----------------------------------------------------------------------------
(* The Ser trait and its provided impls. A type is the tuple of its        *)
(* constructors: <<"u8">>, <<"digest">>, <<"vec", "u8">>, ...; a u8 is a   *)
(* byte, a Hash256Digest a tuple of DigestLen bytes, a Vec<I> a tuple of   *)
(* I values.                                                               *)

DigestLen == 32

IsVec(ty) == ty[1] = "vec"

ElemType(ty) == Tail(ty)

RECURSIVE serialized_length(_, _)
RECURSIVE SumLengths(_, _, _)
\* self.iter().map(|v| v.serialized_length()).sum()
SumLengths(ty, v, i) ==
    IF i > Len(v) THEN 0
    ELSE serialized_length(ty, v[i]) + SumLengths(ty, v, i + 1)

serialized_length(ty, x) ==
    IF ty[1] = "u8" THEN 1
    ELSE IF ty[1] = "digest" THEN DigestLen
    ELSE SumLengths(ElemType(ty), x, 1)

\* <u8 as Ser>::serialize
serialize_u8(x, w) == WriteBytes(w, <<x>>)

\* Hash256Digest::serialize with the bytes in reverse order
serialize_digest_reversed(x, w) == WriteBytes(w, [i \in 1..Len(x) |-> x[Len(x) + 1 - i]])

\* <Hash256Digest as Ser>::serialize
serialize_digest(x, w) == WriteBytes(w, x)

RECURSIVE serialize(_, _, _)
RECURSIVE SerializeElems(_, _, _, _, _)
\* self.iter().map(|v| v.serialize(writer).unwrap()).sum(): the elements in
\* order, the unwrap panicking on the first Err
SerializeElems(ty, v, i, w, sum) ==
    IF i > Len(v) THEN [res |-> Ok(sum), writer |-> w]
    ELSE LET e == serialize(ty, v[i], w)
         IN  IF e.res.status = "Ok"
             THEN SerializeElems(ty, v, i + 1, e.writer, sum + e.res.val)
             ELSE [res |-> Panic, writer |-> e.writer]

\* <Vec<I> as Ser>::serialize
serialize_vec(ty, x, w) == SerializeElems(ElemType(ty), x, 1, w, 0)

serialize(ty, x, w) ==
    IF ty[1] = "u8" THEN serialize_u8(x, w)
    ELSE IF ty[1] = "digest" THEN serialize_digest(x, w)
    ELSE serialize_vec(ty, x, w)

\* <u8 as Ser>::deserialize
deserialize_u8(r) ==
    LET b == ReadExact(r, 1)
    IN  IF b.res.status = "Err" THEN b
        ELSE [res |-> Ok(b.res.val[1]), reader |-> b.reader]

\* <Hash256Digest as Ser>::deserialize
deserialize_digest(r) == ReadExact(r, DigestLen)

RECURSIVE deserialize(_, _, _)
RECURSIVE DeserializeElems(_, _, _, _)
\* for _ in 0..limit { v.push(I::deserialize(reader, 0)?); }
DeserializeElems(ty, r, n, v) ==
    IF n = 0 THEN [res |-> Ok(v), reader |-> r]
    ELSE LET e == deserialize(ty, r, 0)
         IN  IF e.res.status = "Err" THEN e
             ELSE DeserializeElems(ty, e.reader, n - 1, Append(v, e.res.val))

\* Vec<I>::deserialize that reads one element more than the limit
deserialize_vec_one_more(ty, r, limit) == DeserializeElems(ElemType(ty), r, limit + 1, <<>>)

\* <Vec<I> as Ser>::deserialize
deserialize_vec(ty, r, limit) == DeserializeElems(ElemType(ty), r, limit, <<>>)

deserialize(ty, r, limit) ==
    IF ty[1] = "u8" THEN deserialize_u8(r)
    ELSE IF ty[1] = "digest" THEN deserialize_digest(r)
    ELSE deserialize_vec(ty, r, limit)

----------------------------------------------------------------------------
(* Text forms: hex::encode / hex::decode, base64::encode / base64::decode. *)
(* A String is a tuple of one-character strings.                           *)

HexLower == <<"0", "1", "2", "3", "4", "5", "6", "7",
              "8", "9", "a", "b", "c", "d", "e", "f">>

HexUpper == <<"0", "1", "2", "3", "4", "5", "6", "7",
              "8", "9", "A", "B", "C", "D", "E", "F">>

IsHexChar(c) == \E i \in 1..16 : HexLower[i] = c \/ HexUpper[i] = c

HexVal(c) == (CHOOSE i \in 1..16 : HexLower[i] = c \/ HexUpper[i] = c) - 1

\* hex::encode: two lowercase digits a byte, high nibble first
hex_encode(bytes) ==
    [i \in 1..(2 * Len(bytes)) |->
        IF i % 2 = 1 THEN HexLower[(bytes[(i + 1) \div 2] \div 16) + 1]
        ELSE HexLower[(bytes[i \div 2] % 16) + 1]]

\* hex::decode: fails on an odd length or a character that is no hex digit
hex_decode(s) ==
    IF Len(s) % 2 = 1 \/ \E i \in 1..Len(s) : ~IsHexChar(s[i])
    THEN Err("FromHexError")
    ELSE Ok([i \in 1..(Len(s) \div 2) |-> 16 * HexVal(s[2 * i - 1]) + HexVal(s[2 * i])])

Base64Alphabet ==
    <<"A", "B", "C", "D", "E", "F", "G", "H", "I", "J", "K", "L", "M",
      "N", "O", "P", "Q", "R", "S", "T", "U", "V", "W", "X", "Y", "Z",
      "a", "b", "c", "d", "e", "f", "g", "h", "i", "j", "k", "l", "m",
      "n", "o", "p", "q", "r", "s", "t", "u", "v", "w", "x", "y", "z",
      "0", "1", "2", "3", "4", "5", "6", "7", "8", "9", "+", "/">>

IsBase64Char(c) == \E i \in 1..64 : Base64Alphabet[i] = c

Base64Val(c) == (CHOOSE i \in 1..64 : Base64Alphabet[i] = c) - 1

ByteAt(bytes, k) == IF k <= Len(bytes) THEN bytes[k] ELSE 0

\* the j-th (from 0) 6-bit group of the bytes, zero-filled at the end
Sextet(bytes, j) ==
    LET k == ((6 * j) \div 8) + 1
        off == (6 * j) % 8
    IN  IF off = 0 THEN bytes[k] \div 4
        ELSE IF off = 6 THEN (bytes[k] % 4) * 16 + (ByteAt(bytes, k + 1) \div 16)
        ELSE IF off = 4 THEN (bytes[k] % 16) * 4 + (ByteAt(bytes, k + 1) \div 64)
        ELSE bytes[k] % 64

\* base64::encode: RFC 4648 standard alphabet, padded with '=' to a
\* multiple of four characters
base64_encode(bytes) ==
    LET n == (8 * Len(bytes) + 5) \div 6
        padded == 4 * ((Len(bytes) + 2) \div 3)
    IN  [i \in 1..padded |->
            IF i <= n THEN Base64Alphabet[Sextet(bytes, i - 1) + 1] ELSE "="]

\* the k-th (from 0) byte that the 6-bit groups v hold
OctetOf(v, k) ==
    LET j == ((8 * k) \div 6) + 1
        off == (8 * k) % 6
    IN  IF off = 0 THEN v[j] * 4 + (v[j + 1] \div 16)
        ELSE IF off = 2 THEN (v[j] % 16) * 16 + (v[j + 1] \div 4)
        ELSE (v[j] % 4) * 64 + v[j + 1]

\* base64::decode: fails on a character outside the alphabet, on a length
\* no encoding has, on misplaced padding and on non-zero trailing bits
base64_decode(s) ==
    LET npad == IF Len(s) >= 2 /\ s[Len(s)] = "=" /\ s[Len(s) - 1] = "=" THEN 2
                ELSE IF Len(s) >= 1 /\ s[Len(s)] = "=" THEN 1 ELSE 0
        core == SubSeq(s, 1, Len(s) - npad)
        nbytes == (6 * Len(core)) \div 8
    IN  IF \/ \E i \in 1..Len(core) : ~IsBase64Char(core[i])
           \/ Len(core) % 4 = 1
           \/ npad > 0 /\ Len(s) % 4 # 0
        THEN Err("DecodeError")
        ELSE LET v == [i \in 1..Len(core) |-> Base64Val(core[i])]
                 spare == 6 * Len(core) - 8 * nbytes
             IN  IF spare = 2 /\ v[Len(core)] % 4 # 0 THEN Err("DecodeError")
                 ELSE IF spare = 4 /\ v[Len(core)] % 16 # 0 THEN Err("DecodeError")
                 ELSE Ok([k \in 1..nbytes |-> OctetOf(v, k - 1)])

\* Ser::serialize_hex / Ser::serialize_base64: serialize into a fresh Vec<u8>
\* and encode it
serialize_hex(ty, x) ==
    LET r == serialize(ty, x, NewVec)
    IN  IF r.res.status # "Ok" THEN r.res ELSE Ok(hex_encode(r.writer.buf))

serialize_base64(ty, x) ==
    LET r == serialize(ty, x, NewVec)
    IN  IF r.res.status # "Ok" THEN r.res ELSE Ok(base64_encode(r.writer.buf))

\* Ser::deserialize_hex / Ser::deserialize_base64: decode, then
\* Self::deserialize(&mut Cursor::new(v), 0)
deserialize_hex(ty, s) ==
    LET v == hex_decode(s)
    IN  IF v.status = "Err" THEN [res |-> v, reader |-> NewReader(<<>>, 0)]
        ELSE deserialize(ty, NewReader(v.val, 0), 0)

deserialize_base64(ty, s) ==
    LET v == base64_decode(s)
    IN  IF v.status = "Err" THEN [res |-> v, reader |-> NewReader(<<>>, 0)]
        ELSE deserialize(ty, NewReader(v.val, 0), 0)

----------------------------------------------------------------------------
(* The calls made on the codec. The codec keeps no state between calls, so  *)
(* a behaviour is one call, or a write and the read of what it wrote, made *)
(* on a fresh sink and source.                                             *)

NoCall == [op |-> "none", ty |-> <<>>, limit |-> 0, res |-> Ok(<<>>)]

Call(op, ty, limit, res) == [op |-> op, ty |-> ty, limit |-> limit, res |-> res]

Init ==
    /\ value = <<>>
    /\ writer = NewVec
    /\ reader = NewReader(<<>>, 0)
    /\ text = <<>>
    /\ ret = NoCall
    /\ hw = [kind |-> "none", internal |-> <<>>, live |-> FALSE]
    /\ chunks = <<>>

SampleBytes == {0, 1, 252, 253, 255}

PrefixBytes == SampleBytes \cup {254}

\* u64 values around every boundary of the encoding: the k low bytes are a,
\* the next byte is b, the rest is zero
U64Samples ==
    {[i \in 1..8 |-> IF i <= k THEN a ELSE IF i = k + 1 THEN b ELSE 0] :
        k \in 0..7, a \in SampleBytes, b \in SampleBytes}

\* wire inputs: nothing, or a first byte followed by 0 to 8 bytes, which are
\* a whole body, a cut body, or a body and bytes after it
WireInputs ==
    {<<>>} \cup {<<f>> \o SubSeq(v, 1, n) : f \in PrefixBytes, v \in U64Samples, n \in 0..8}

IntSinks ==
    {NewVec} \cup {NewSink(k, c) : k \in {"slice", "broken"}, c \in 0..MaxIntCap}

\* Self::write_comapct_int(&mut writer, number), on a fresh sink
WriteCompactInt ==
    /\ ret.op = "none"
    /\ \E number \in U64Samples, w \in IntSinks :
        LET r == write_comapct_int(w, number)
        IN  /\ value' = number
            /\ writer' = r.writer
            /\ ret' = Call("write_comapct_int", <<"u64">>, 0, r.res)
            /\ UNCHANGED <<reader, text, hw, chunks>>

\* Self::read_compact_int(&mut reader) on a fresh source of bytes off the wire
ReadCompactInt ==
    /\ ret.op = "none"
    /\ \E data \in WireInputs, c \in 0..MaxChunk :
        LET r == read_compact_int(NewReader(data, c))
        IN  /\ reader' = r.reader
            /\ ret' = Call("read_compact_int", <<"u64">>, 0, r.res)
            /\ UNCHANGED <<value, writer, text, hw, chunks>>

\* Self::read_compact_int on the buffer the last write_comapct_int filled
ReadBackCompactInt ==
    /\ ret.op = "write_comapct_int"
    /\ \E c \in 0..MaxChunk :
        LET r == read_compact_int(NewReader(writer.buf, c))
        IN  /\ reader' = r.reader
            /\ ret' = Call("read_back_compact_int", <<"u64">>, 0, r.res)
            /\ UNCHANGED <<value, writer, text, hw, chunks>>

Next == WriteCompactInt \/ ReadCompactInt \/ ReadBackCompactInt

Spec == Init /\ [][Next]_vars

----------------------------------------------------------------------------
(* Calls of serialize / deserialize and their text forms *)

SeqsUpTo(S, n) == UNION {[1..k -> S] : k \in 0..n}

Digest(b, step) == [i \in 1..DigestLen |-> (b + step * (i - 1)) % 256]

DigestValues == {Digest(b, step) : b \in {0, 250}, step \in {0, 1}}

SerTypes == {<<"u8">>, <<"digest">>, <<"vec", "u8">>, <<"vec", "digest">>,
             <<"vec", "vec", "u8">>}

ValuesOf(ty) ==
    IF ty = <<"u8">> THEN SampleBytes
    ELSE IF ty = <<"digest">> THEN DigestValues
    ELSE IF ty = <<"vec", "u8">> THEN SeqsUpTo({0, 1, 255}, MaxVecLen)
    ELSE IF ty = <<"vec", "digest">> THEN SeqsUpTo(DigestValues, MaxDigests)
    ELSE SeqsUpTo(SeqsUpTo({7}, MaxNest), MaxNest)

ForeignTexts == SeqsUpTo({"0", "F", "f", "g", "="}, MaxTextLen)

SerSinks ==
    {NewVec} \cup {NewSink(k, c) : k \in {"slice", "broken"}, c \in 0..MaxCap}

\* x.serialize(&mut writer) on a fresh sink
Serialize ==
    /\ ret.op = "none"
    /\ \E ty \in SerTypes :
        \E x \in ValuesOf(ty), w \in SerSinks :
          LET r == serialize(ty, x, w)
          IN  /\ value' = x
              /\ writer' = r.writer
              /\ ret' = Call("serialize", ty, 0, r.res)
              /\ UNCHANGED <<reader, text, hw, chunks>>

\* Self::deserialize(&mut reader, limit) on the bytes the last serialize
\* left in its sink, read as the type that was written
Deserialize ==
    /\ ret.op = "serialize"
    /\ ret.res.status = "Ok"
    /\ \E limit \in 0..(MaxVecLen + 1), c \in 0..MaxChunk :
        LET r == deserialize(ret.ty, NewReader(writer.buf, c), limit)
        IN  /\ reader' = r.reader
            /\ ret' = Call("deserialize", ret.ty, limit, r.res)
            /\ UNCHANGED <<value, writer, text, hw, chunks>>

\* x.serialize_hex()
SerializeHex ==
    /\ ret.op = "none"
    /\ \E ty \in SerTypes :
        \E x \in ValuesOf(ty) :
          LET r == serialize_hex(ty, x)
          IN  /\ value' = x
              /\ text' = r.val
              /\ ret' = Call("serialize_hex", ty, 0, r)
              /\ UNCHANGED <<writer, reader, hw, chunks>>

\* x.serialize_base64()
SerializeBase64 ==
    /\ ret.op = "none"
    /\ \E ty \in SerTypes :
        \E x \in ValuesOf(ty) :
          LET r == serialize_base64(ty, x)
          IN  /\ value' = x
              /\ text' = r.val
              /\ ret' = Call("serialize_base64", ty, 0, r)
              /\ UNCHANGED <<writer, reader, hw, chunks>>

\* Self::deserialize_hex(s) on the String the last serialize_hex returned
DeserializeHex ==
    /\ ret.op = "serialize_hex"
    /\ ret.res.status = "Ok"
    /\ LET r == deserialize_hex(ret.ty, text)
       IN  /\ reader' = r.reader
           /\ ret' = Call("deserialize_hex", ret.ty, 0, r.res)
           /\ UNCHANGED <<value, writer, text, hw, chunks>>

\* Self::deserialize_base64(s) on the String the last serialize_base64 returned
DeserializeBase64 ==
    /\ ret.op = "serialize_base64"
    /\ ret.res.status = "Ok"
    /\ LET r == deserialize_base64(ret.ty, text)
       IN  /\ reader' = r.reader
           /\ ret' = Call("deserialize_base64", ret.ty, 0, r.res)
           /\ UNCHANGED <<value, writer, text, hw, chunks>>

\* Self::deserialize_hex / deserialize_base64 on a String that came from
\* elsewhere
DeserializeText ==
    /\ ret.op = "none"
    /\ \E ty \in {<<"u8">>, <<"vec", "u8">>}, s \in ForeignTexts, enc \in {"hex", "base64"} :
        LET r == IF enc = "hex" THEN deserialize_hex(ty, s) ELSE deserialize_base64(ty, s)
        IN  /\ text' = s
            /\ reader' = r.reader
            /\ ret' = Call("deserialize_text", ty, 0, r.res)
            /\ UNCHANGED <<value, writer, hw, chunks>>

SerNext ==
    \/ Serialize
    \/ Deserialize
    \/ SerializeHex
    \/ SerializeBase64
    \/ DeserializeHex
    \/ DeserializeBase64
    \/ DeserializeText

SpecSer == Init /\ [][SerNext]_vars

----------------------------------------------------------------------------
(* The hash writers. A hasher's state is the bytes it has absorbed; a      *)
(* digest is kept symbolically, as the hashed message between an opening   *)
(* mark of the algorithm and a closing mark (numbers that are no bytes),   *)
(* so that different messages or algorithms never collide.                 *)

\* sha2::Sha256 / sha3::Sha3_256: Digest::input, Digest::result, Digest::digest
HasherInput(internal, buf) == internal \o buf

Sha256(msg) == <<-256>> \o msg \o <<-1>>

Sha3_256(msg) == <<-3>> \o msg \o <<-1>>

\* Hash256Writer::default() / Sha3_256Writer::default()
NewHashWriter(kind) == [kind |-> kind, internal |-> <<>>, live |-> TRUE]

\* <Hash256Writer as Write>::write
Hash256Writer_write(w, buf) ==
    [res |-> Ok(Len(buf)),
     hw |-> [w EXCEPT !.internal = HasherInput(w.internal, buf)]]

\* Sha3_256Writer::write that starts the hasher afresh on every call
Sha3_256Writer_write_reset(w, buf) ==
    [res |-> Ok(Len(buf)),
     hw |-> [w EXCEPT !.internal = buf]]

\* <Sha3_256Writer as Write>::write
Sha3_256Writer_write(w, buf) ==
    [res |-> Ok(Len(buf)),
     hw |-> [w EXCEPT !.internal = HasherInput(w.internal, buf)]]

\* <Hash256Writer as HashWriter<Hash256Digest>>::finish
Hash256Writer_finish(w) ==
    LET first == Sha256(w.internal)
        second == Sha256(first)
    IN  second

\* <Sha3_256Writer as MarkedDigestWriter<Sha3_256Digest>>::finish
Sha3_256Writer_finish(w) ==
    LET result == Sha3_256(w.internal)
    IN  result

HashChunks == {<<>>, <<0>>, <<0, 0>>, <<1>>}

HashDefault ==
    /\ ret.op = "none"
    /\ \E kind \in {"hash256", "sha3_256"} :
        /\ hw' = NewHashWriter(kind)
        /\ chunks' = <<>>
        /\ ret' = Call("default", <<kind>>, 0, Ok(<<>>))
        /\ UNCHANGED <<value, writer, reader, text>>

\* w.write(&buf)
HashWrite ==
    /\ hw.live
    /\ Len(chunks) < MaxWrites
    /\ \E buf \in HashChunks :
        LET r == IF hw.kind = "hash256" THEN Hash256Writer_write(hw, buf)
                 ELSE Sha3_256Writer_write(hw, buf)
        IN  /\ hw' = r.hw
            /\ chunks' = Append(chunks, buf)
            /\ ret' = Call("write", <<hw.kind>>, 0, r.res)
            /\ UNCHANGED <<value, writer, reader, text>>

\* w.finish(), which consumes the writer
HashFinish ==
    /\ hw.live
    /\ LET digest == IF hw.kind = "hash256" THEN Hash256Writer_finish(hw)
                     ELSE Sha3_256Writer_finish(hw)
       IN  /\ hw' = [hw EXCEPT !.live = FALSE]
           /\ ret' = Call("finish", <<hw.kind>>, 0, Ok(digest))
           /\ UNCHANGED <<value, writer, reader, text, chunks>>

HashNext == HashDefault \/ HashWrite \/ HashFinish

SpecHash == Init /\ [][HashNext]_vars

----------------------------------------------------------------------------
(* Properties of the compact-integer codec *)

\* the u64 a whole 2-, 4- or 8-byte body after the first byte stands for
BodyOf(data, n) == FromLeBytes(SubSeq(data, 2, n + 1))

\* a wire input in a longer form than its value needs
NonMinimalInput(data) ==
    \/ Len(data) >= 3 /\ data[1] = 253 /\ U64Leq(BodyOf(data, 2), xFC)
    \/ Len(data) >= 5 /\ data[1] = 254 /\ U64Leq(BodyOf(data, 4), xFFFF)
    \/ Len(data) >= 9 /\ data[1] = 255 /\ U64Leq(BodyOf(data, 8), xFFFFFFFF)

\* C1: read_compact_int answers Err(NonMinimalVarInt), never Ok, on every
\* input whose first byte 0xfd/0xfe/0xff is followed by a whole body that
\* holds a value the next shorter form could carry.
C1_NonMinimalRejected ==
    (ret.op = "read_compact_int" /\ NonMinimalInput(reader.data))
        => IsErr(ret.res, "NonMinimalVarInt")

\* C1 witness: [0xfd, 0x01, 0x00], the 3-byte form of 1, was read from memory
\* and refused.
C1_Witness ==
    /\ ret.op = "read_compact_int"
    /\ reader.data = <<253, 1, 0>>
    /\ reader.chunk = 0
    /\ ret.res.status = "Err"

\* C2: a value written by write_comapct_int into an in-memory buffer and
\* read from that buffer by read_compact_int comes back as Ok(value), and
\* the read consumes exactly the bytes written.
C2_CompactRoundTrip ==
    (ret.op = "read_back_compact_int" /\ writer.kind = "vec" /\ reader.chunk = 0)
        => /\ IsOk(ret.res, value)
           /\ reader.data = writer.buf
           /\ reader.pos = Len(writer.buf)

\* C2 witness: 0x100000000 went through its 9-byte form and came back.
C2_Witness ==
    /\ ret.op = "read_back_compact_int"
    /\ writer.kind = "vec"
    /\ reader.chunk = 0
    /\ value = <<0, 0, 0, 0, 1, 0, 0, 0>>
    /\ reader.pos = 9
    /\ ret.res.status = "Ok"

\* C11: read_compact_int reads the whole body or fails: an Ok result has
\* consumed exactly the 1, 3, 5 or 9 bytes the first byte announces, and when
\* the source ends or delivers fewer bytes before the 2-, 4- or 8-byte body
\* is complete, the result is an I/O error, never a value made of a
\* zero-padded part of the body.
C11_WholeBodyOrFail ==
    (ret.op = "read_compact_int" /\ Len(reader.data) >= 1)
        => LET announced == prefix_len_from_first_byte(reader.data[1])
           IN  /\ ret.res.status = "Ok" => reader.pos = announced
               /\ reader.pos < announced => IsErr(ret.res, "IOError")

\* the bytes of v above position n are all zero: v < 256^n
Below(v, n) == \A i \in (n + 1)..8 : v[i] = 0

\* the four-class table of the wire format
TableEncoding(v) ==
    IF Below(v, 1) /\ v[1] <= 252 THEN <<v[1]>>
    ELSE IF Below(v, 2) THEN <<253, v[1], v[2]>>
    ELSE IF Below(v, 4) THEN <<254, v[1], v[2], v[3], v[4]>>
    ELSE <<255>> \o v

\* C3: write_comapct_int puts the table's encoding of the value, and nothing
\* else, into an in-memory buffer, returns its length, and that length is
\* prefix_byte_len(value); first_byte_from_len maps 3, 5, 9 to 0xfd, 0xfe,
\* 0xff and 1 to None.
C3_EncodingTable ==
    /\ (ret.op = "write_comapct_int" /\ writer.kind = "vec")
        => /\ writer.buf = TableEncoding(value)
           /\ IsOk(ret.res, Len(writer.buf))
           /\ Len(writer.buf) = prefix_byte_len(value)
    /\ first_byte_from_len(3) = Some(253)
    /\ first_byte_from_len(5) = Some(254)
    /\ first_byte_from_len(9) = Some(255)
    /\ first_byte_from_len(1) = None

\* C3 witness: 0x10000 was written as [0xfe, 0x00, 0x00, 0x01, 0x00].
C3_Witness ==
    /\ ret.op = "write_comapct_int"
    /\ value = <<0, 0, 1, 0, 0, 0, 0, 0>>
    /\ writer.kind = "vec"
    /\ writer.buf = <<254, 0, 0, 1, 0>>
    /\ IsOk(ret.res, 5)

----------------------------------------------------------------------------
(* Properties of serialize / deserialize *)

FlatTypes == {<<"u8">>, <<"digest">>, <<"vec", "u8">>, <<"vec", "digest">>}

IsPrefix(a, b) == Len(a) <= Len(b) /\ a = SubSeq(b, 1, Len(a))

\* C4: deserialize_hex(serialize_hex(x)) and
\* deserialize_base64(serialize_base64(x)) give back Ok(x) for every value
\* of a provided type, non-empty vectors included.
C4_TextRoundTrip ==
    ret.op \in {"deserialize_hex", "deserialize_base64"} => IsOk(ret.res, value)

\* C5: when the write of an element fails while a Vec is serialized, the
\* call returns Err to its caller, and the sink holds the bytes of the
\* elements before the failing one and no others.
C5_WriteFailurePropagates ==
    (/\ ret.op = "serialize"
     /\ IsVec(ret.ty)
     /\ writer.kind = "broken"
     /\ serialized_length(ret.ty, value) > writer.cap)
        => /\ ret.res.status = "Err"
           /\ IsPrefix(writer.buf, serialize(ret.ty, value, NewVec).writer.buf)

\* C6: a u8, a Hash256Digest, or a Vec of them, serialized into an
\* in-memory buffer and deserialized from it (a Vec with limit = its element
\* count) comes back as Ok of the same value; a digest is written as its 32
\* bytes in order with nothing before them.
C6_BinaryRoundTrip ==
    (/\ ret.op = "deserialize"
     /\ writer.kind = "vec"
     /\ ret.ty \in FlatTypes
     /\ IsVec(ret.ty) => ret.limit = Len(value))
        => /\ IsOk(ret.res, value)
           /\ ret.ty = <<"digest">> => writer.buf = value

\* C6 witness: a Vec of two different digests went through a Vec<u8> and
\* came back with limit 2.
C6_Witness ==
    /\ ret.op = "deserialize"
    /\ writer.kind = "vec"
    /\ ret.ty = <<"vec", "digest">>
    /\ ret.limit = 2
    /\ value = <<Digest(0, 1), Digest(250, 1)>>
    /\ Len(writer.buf) = 64
    /\ ret.res.status = "Ok"

\* C7: whenever serialize returns Ok, whatever the sink, the count it
\* returns and the number of bytes the sink received both equal
\* serialized_length(x).
C7_LengthConsistency ==
    (ret.op = "serialize" /\ ret.res.status = "Ok")
        => /\ ret.res.val = serialized_length(ret.ty, value)
           /\ Len(writer.buf) = serialized_length(ret.ty, value)

\* the size of one element of a Vec<u8> or Vec<Hash256Digest> on the wire
ElemSize(ty) == IF ElemType(ty) = <<"u8">> THEN 1 ELSE DigestLen

\* the first n elements a source holds, in source order
FirstElems(ty, data, n) ==
    [i \in 1..n |->
        IF ElemType(ty) = <<"u8">> THEN data[i]
        ELSE SubSeq(data, (i - 1) * DigestLen + 1, i * DigestLen)]

\* C8: Vec::<I>::deserialize(reader, N) on a source that holds at least N
\* elements returns exactly the first N, has consumed exactly their bytes
\* and leaves the rest unread; with N = 0 it returns the empty vector and
\* consumes nothing.
C8_ReadLimit ==
    (/\ ret.op = "deserialize"
     /\ ret.ty \in {<<"vec", "u8">>, <<"vec", "digest">>}
     /\ Len(reader.data) >= ret.limit * ElemSize(ret.ty))
        => /\ IsOk(ret.res, FirstElems(ret.ty, reader.data, ret.limit))
           /\ Len(ret.res.val) = ret.limit
           /\ reader.pos = ret.limit * ElemSize(ret.ty)
           /\ Remaining(reader) = Drop(reader.data, ret.limit * ElemSize(ret.ty))

\* C8 witness: limit 1 on a short-reading source of two digests returned the
\* first and left the 32 bytes of the second unread.
C8_Witness ==
    /\ ret.op = "deserialize"
    /\ ret.ty = <<"vec", "digest">>
    /\ ret.limit = 1
    /\ reader.chunk = 1
    /\ Len(reader.data) = 64
    /\ IsOk(ret.res, <<Digest(0, 1)>>)
    /\ Len(Remaining(reader)) = 32

----------------------------------------------------------------------------
(* Properties of the hash writers *)

RECURSIVE Flatten(_)
\* c1 ++ ... ++ cn
Flatten(cs) == IF cs = <<>> THEN <<>> ELSE Head(cs) \o Flatten(Tail(cs))

\* C9: every write returns Ok(length of its chunk), and finish returns the
\* hash of the concatenation of all chunks written, however they were cut:
\* SHA-256 applied twice for Hash256Writer, SHA3-256 applied once for
\* Sha3_256Writer.
C9_DigestOfConcatenation ==
    /\ ret.op = "write" => IsOk(ret.res, Len(chunks[Len(chunks)]))
    /\ ret.op = "finish" =>
        /\ ret.res.status = "Ok"
        /\ hw.kind = "hash256" => ret.res.val = Sha256(Sha256(Flatten(chunks)))
        /\ hw.kind = "sha3_256" => ret.res.val = Sha3_256(Flatten(chunks))

\* C9 witness: write([0x00]); write([0x00]); finish() on a Hash256Writer gave
\* the digest that one write([0x00, 0x00]) gives.
C9_Witness ==
    /\ ret.op = "finish"
    /\ hw.kind = "hash256"
    /\ chunks = <<<<0>>, <<0>>>>
    /\ ret.res.val = Hash256Writer_finish(Hash256Writer_write(NewHashWriter("hash256"), <<0, 0>>).hw)

====
